---- MODULE Spec2Model ----
(***************************************************************************)
(* Model of mod.ts of deno-molt: collectDependencyUpdateAll (graph walk    *)
(* with a concurrent fan-out over the dependency edges), the load policy   *)
(* handed to the graph builder, and execDependencyUpdate /                 *)
(* execDependencyUpdateAll (span-based patching of a referrer's text).     *)
(*                                                                         *)
(* Text is a sequence of one-character strings; a file's content is one    *)
(* flat text in which "\n" separates the lines, as on disk.                *)
(***************************************************************************)
EXTENDS Integers, Sequences, FiniteSets, TLC

(***************************************************************************)
(* Bounds of the model.                                                    *)
(***************************************************************************)
\* largest line index a code span of the enumerated updates may name
MaxLine == 1
\* largest character offset a code span of the enumerated updates may name
MaxChar == 6
\* largest number of updates handed to execDependencyUpdateAll
MaxBatch == 3
\* largest number of direct execDependencyUpdate calls the caller makes
MaxDirect == 1
\* largest number of times the caller persists a returned content
MaxWrites == 2
\* largest number of imports of the root module
MaxEdges == 3

(***************************************************************************)
(* Strings.                                                                *)
(***************************************************************************)
NL == "\n"
Quote == "\""

\* String.prototype.slice(a, b) for 0 <= a, 0 <= b (0-based, half-open,
\* both ends clamped to the length; empty when b <= a).
Slice(s, a, b) ==
  LET lo == IF a > Len(s) THEN Len(s) ELSE a
      hi == IF b > Len(s) THEN Len(s) ELSE b
  IN  IF hi <= lo THEN << >> ELSE SubSeq(s, lo + 1, hi)

\* String.prototype.slice(a): from a to the end.
SliceFrom(s, a) == Slice(s, a, Len(s))

\* String.prototype.indexOf(p), 1-based; 0 when p does not occur in s.
\* The empty pattern occurs at the very start.
IndexOf(s, p) ==
  LET hits == { i \in 1..(Len(s) - Len(p) + 1) : SubSeq(s, i, i + Len(p) - 1) = p }
  IN  IF hits = {} THEN 0 ELSE CHOOSE i \in hits : \A j \in hits : i <= j

\* replace with a global pattern: every occurrence
RECURSIVE ReplaceAll(_, _, _)
ReplaceAll(s, p, r) ==
  LET k == IndexOf(s, p)
  IN  IF k = 0 \/ Len(p) = 0 THEN s
      ELSE SubSeq(s, 1, k - 1) \o r \o ReplaceAll(SubSeq(s, k + Len(p), Len(s)), p, r)

\* String.prototype.replace(p, r) with a string pattern: the first occurrence
\* only; s itself when p does not occur.  (r holds no "$", so none of the
\* replacement patterns of replace() applies: version tokens are made of
\* digits, dots and letters.)
Replace(s, p, r) ==
  LET k == IndexOf(s, p)
  IN  IF k = 0 THEN s
      ELSE SubSeq(s, 1, k - 1) \o r \o SubSeq(s, k + Len(p), Len(s))

\* index of the first "\n" of s, 0 when there is none
FirstNL(s) == IndexOf(s, <<NL>>)

\* String.prototype.split("\n"): the lines of a text; the empty text has one
\* (empty) line, and a text ending in "\n" has a last empty line.
RECURSIVE Split(_)
Split(s) ==
  LET k == FirstNL(s)
  IN  IF k = 0 THEN <<s>>
      ELSE <<SubSeq(s, 1, k - 1)>> \o Split(SubSeq(s, k + 1, Len(s)))

\* Array.prototype.join("\n")
RECURSIVE Join(_)
Join(ls) ==
  IF Len(ls) = 0 THEN << >>
  ELSE IF Len(ls) = 1 THEN ls[1]
  ELSE ls[1] \o <<NL>> \o Join(Tail(ls))


(***************************************************************************)
(* State.                                                                  *)
(***************************************************************************)
VARIABLES
  files,      \* the file system: path -> text of the file, or NoFile
  updates,    \* the DependencyUpdate records the caller holds
  pc,         \* pc[c][i]: position of the execDependencyUpdate task for
              \* updates[i] started by call c ("all": the batch, "one": a
              \* direct call)
  readText,   \* readText[c][i]: what Deno.readTextFile gave that task
  warned,     \* the console.warn lines written so far, as <<c, i, kind>>
  results,    \* the results array of execDependencyUpdateAll
  batch,      \* the promise of execDependencyUpdateAll
  ret,        \* ret[i]: what the direct call on updates[i] returned
  writes      \* the results the caller wrote back, in the order of the writes

patchVars == <<files, updates, pc, readText, warned, results, batch, ret, writes>>

VARIABLES
  world,        \* the modules the graph builder can load: specifier -> edges
  registry,     \* the registries: dependency name -> latest version, if any
  opts,         \* opts[k]: the options of call k of collectDependencyUpdateAll
  initialized,  \* DenoGraph.#initialized
  initCalls,    \* number of times initDenoGraph was invoked
  cpc,          \* cpc[k]: position of call k
  graph,        \* graph[k]: the graph createGraph is building for call k
  answers,      \* answers[k]: what the load callback of call k answered
  edges,        \* edges[k]: the dependency edges call k fanned out over
  composed,     \* composed[k]: the edges whose composition has settled
  collected     \* collected[k]: the updates array of call k

collectVars ==
  <<world, registry, opts, initialized, initCalls, cpc, graph, answers, edges,
    composed, collected>>

vars == <<patchVars, collectVars>>

\* a path with no readable file, and a file holding text t
NoFile == [exists |-> FALSE]
File(t) == [exists |-> TRUE, text |-> t]

\* an update without a code span, and a span (zero-based, as deno_graph gives it)
NoCode == [present |-> FALSE]
Span(sl, sc, el, ec) == [present |-> TRUE, sl |-> sl, sc |-> sc, el |-> el, ec |-> ec]

\* what a task's read gave
NotRead == [kind |-> "NotRead"]
ReadFailed == [kind |-> "ReadFailed"]
ReadOf(t) == [kind |-> "text", text |-> t]

\* how a promise settles: a ModuleUpdateResult, undefined, or a rejection
NoValue == [kind |-> "none"]
Undefined == [kind |-> "undefined"]
Failure == [kind |-> "failure"]
Result(u, t) == [kind |-> "result", update |-> u, content |-> t]

Calls == {"all", "one"}
Paths == {"a", "b", "m"}

FileA == [scheme |-> "file:", path |-> "a"]
FileB == [scheme |-> "file:", path |-> "b"]
FileM == [scheme |-> "file:", path |-> "m"]
Remote == [scheme |-> "https:", path |-> "r"]

(***************************************************************************)
(* execDependencyUpdate, mod.ts 146-171.                                   *)
(***************************************************************************)
\* a head that reports nothing when the span is absent
WarningOnlyMultiLine(u) ==
  IF u.code.present /\ u.code.sl # u.code.el THEN "NotASingleLine" ELSE "none"

\* The console.warn the synchronous head of execDependencyUpdate writes, if any.
Warning(u) ==
  IF ~u.code.present THEN "NoCodeFound"
  ELSE IF u.code.sl # u.code.el THEN "NotASingleLine"
  ELSE "none"

\* a head without the single-line check
ExecPrefixNoLineCheck(u) ==
  IF ~u.code.present THEN "skipped"
  ELSE IF u.referrer.scheme # "file:" THEN "throwing"
  ELSE "reading"

\* Where execDependencyUpdate stands when its synchronous head has run:
\* "skipped" after one of the two early returns, "throwing" when fromFileUrl
\* rejects a referrer that is no file: URL, "reading" when the read is issued.
ExecPrefix(u) ==
  IF ~u.code.present THEN "skipped"
  ELSE IF u.code.sl # u.code.el THEN "skipped"
  ELSE IF u.referrer.scheme # "file:" THEN "throwing"
  ELSE "reading"

\* The text that takes the place of the span: the quoted specifier with
\* version.from replaced by version.to.
NewLiteral(u) == <<Quote>> \o Replace(u.specifier, u.version.from, u.version.to) \o <<Quote>>

\* a patch whose tail starts one character late
PatchLineLateTail(l, u) ==
  Slice(l, 0, u.code.sc) \o NewLiteral(u) \o SliceFrom(l, u.code.ec + 1)

\* a patch that looks the literal up in the line it has read and falls back
\* on the offsets of the update only when the literal is not there
PatchLineByLiteral(l, u) ==
  LET old == <<Quote>> \o u.specifier \o <<Quote>>
      k == IndexOf(l, old)
  IN  IF k = 0
      THEN Slice(l, 0, u.code.sc) \o NewLiteral(u) \o SliceFrom(l, u.code.ec)
      ELSE SubSeq(l, 1, k - 1) \o NewLiteral(u) \o SubSeq(l, k + Len(old), Len(l))

\* lines[line] = lines[line].slice(0, start) + literal + lines[line].slice(end)
PatchLine(l, u) ==
  Slice(l, 0, u.code.sc) \o NewLiteral(u) \o SliceFrom(l, u.code.ec)

\* a patch that takes a missing line for an empty one, adding the lines
\* that lead up to it
PatchExtending(u, content) ==
  LET lines == Split(content)
      line  == u.code.sl + 1
      padded == [k \in 1..(IF line > Len(lines) THEN line ELSE Len(lines)) |->
                   IF k <= Len(lines) THEN lines[k] ELSE << >>]
  IN  Result(u, Join([padded EXCEPT ![line] = PatchLine(padded[line], u)]))

\* The part of execDependencyUpdate after the read: {...update, content},
\* or a failure when lines[line] is undefined (TypeError).
Patch(u, content) ==
  LET lines == Split(content)
      line  == u.code.sl + 1
  IN  IF line > Len(lines) THEN Failure
      ELSE Result(u, Join([lines EXCEPT ![line] = PatchLine(lines[line], u)]))

\* A task settles with a ModuleUpdateResult, undefined or a failure.  In the
\* batch the wrapper pushes a result and Promise.all rejects on the first
\* failure; a direct call hands the value to its caller.
Settle(c, i, outcome) ==
  /\ pc' = [pc EXCEPT ![c][i] = IF outcome.kind = "failure" THEN "failed" ELSE "settled"]
  /\ results' = IF c = "all" /\ outcome.kind = "result"
                THEN Append(results, outcome) ELSE results
  /\ batch' = IF c = "all" /\ outcome.kind = "failure" /\ batch = "pending"
              THEN "rejected" ELSE batch
  /\ ret' = IF c = "one" /\ outcome.kind # "failure"
            THEN [ret EXCEPT ![i] = outcome] ELSE ret

\* a patcher that writes the patched text to the referrer itself
ReadTextFileInPlace(c, i) ==
  /\ pc[c][i] = "reading"
  /\ LET u == updates[i]
         f == files[u.referrer.path]
     IN  IF ~f.exists
         THEN /\ readText' = [readText EXCEPT ![c][i] = ReadFailed]
              /\ Settle(c, i, Failure)
              /\ files' = files
         ELSE /\ readText' = [readText EXCEPT ![c][i] = ReadOf(f.text)]
              /\ Settle(c, i, Patch(u, f.text))
              /\ files' = IF Patch(u, f.text).kind = "result"
                          THEN [files EXCEPT ![u.referrer.path] = File(Patch(u, f.text).content)]
                          ELSE files
  /\ UNCHANGED <<updates, warned, writes, collectVars>>

\* a patcher that patches the text an earlier call for the same referrer
\* has produced, if there is one, instead of the text it has just read
ReadTextFileShared(c, i) ==
  /\ pc[c][i] = "reading"
  /\ LET u == updates[i]
         f == files[u.referrer.path]
         done == { r \in { results[k] : k \in DOMAIN results }
                         \cup { ret[j] : j \in { m \in DOMAIN updates : ret[m].kind = "result" } } :
                     r.update.referrer = u.referrer }
         buffer == IF done = {} THEN f.text ELSE (CHOOSE r \in done : TRUE).content
     IN  IF ~f.exists
         THEN /\ readText' = [readText EXCEPT ![c][i] = ReadFailed]
              /\ Settle(c, i, Failure)
         ELSE /\ readText' = [readText EXCEPT ![c][i] = ReadOf(f.text)]
              /\ Settle(c, i, Patch(u, buffer))
  /\ UNCHANGED <<files, updates, warned, writes, collectVars>>

\* Deno.readTextFile completes and the rest of execDependencyUpdate runs.
ReadTextFile(c, i) ==
  /\ pc[c][i] = "reading"
  /\ LET u == updates[i]
         f == files[u.referrer.path]
     IN  IF ~f.exists
         THEN /\ readText' = [readText EXCEPT ![c][i] = ReadFailed]
              /\ Settle(c, i, Failure)
         ELSE /\ readText' = [readText EXCEPT ![c][i] = ReadOf(f.text)]
              /\ Settle(c, i, Patch(u, f.text))
  /\ UNCHANGED <<files, updates, warned, writes, collectVars>>

\* The promise of an early return resolves with undefined.
SettleSkipped(c, i) ==
  /\ pc[c][i] = "skipped"
  /\ Settle(c, i, Undefined)
  /\ UNCHANGED <<files, updates, readText, warned, writes, collectVars>>

\* The promise of a call whose fromFileUrl threw rejects.
SettleThrown(c, i) ==
  /\ pc[c][i] = "throwing"
  /\ Settle(c, i, Failure)
  /\ UNCHANGED <<files, updates, readText, warned, writes, collectVars>>

Warnings(c, is) ==
  { <<c, i, Warning(updates[i])>> : i \in { j \in is : Warning(updates[j]) # "none" } }

\* A direct call execDependencyUpdate(updates[i]): its synchronous head.
ExecDependencyUpdate(i) ==
  /\ pc["one"][i] = "idle"
  /\ Cardinality({ j \in DOMAIN updates : pc["one"][j] # "idle" }) < MaxDirect
  /\ pc' = [pc EXCEPT !["one"][i] = ExecPrefix(updates[i])]
  /\ warned' = warned \cup Warnings("one", {i})
  /\ UNCHANGED <<files, updates, readText, results, batch, ret, writes, collectVars>>

(***************************************************************************)
(* execDependencyUpdateAll, mod.ts 135-144.                                *)
(***************************************************************************)
\* The call: updates.map runs the synchronous head of every
\* execDependencyUpdate in turn, then Promise.all waits.
ExecDependencyUpdateAll ==
  /\ batch = "idle"
  /\ batch' = "pending"
  /\ pc' = [pc EXCEPT !["all"] = [i \in DOMAIN updates |-> ExecPrefix(updates[i])]]
  /\ warned' = warned \cup Warnings("all", DOMAIN updates)
  /\ UNCHANGED <<files, updates, readText, results, ret, writes, collectVars>>

\* a wait that ends with the first task to settle
AnySettled == \E i \in DOMAIN updates : pc["all"][i] = "settled"

\* Promise.all resolves when every task has settled; the results are returned.
AllSettled == \A i \in DOMAIN updates : pc["all"][i] = "settled"

ExecDependencyUpdateAllReturn ==
  /\ batch = "pending"
  /\ AllSettled
  /\ batch' = "returned"
  /\ UNCHANGED <<files, updates, pc, readText, warned, results, ret, writes, collectVars>>

(***************************************************************************)
(* The caller persists a content it was handed (mod.ts 20-29: the results  *)
(* go to commitAll, which writes them to the referrer).                    *)
(***************************************************************************)
Delivered ==
  (IF batch = "returned" THEN { results[k] : k \in DOMAIN results } ELSE {})
  \cup { ret[i] : i \in { j \in DOMAIN updates : ret[j].kind = "result" } }

WriteBack(r) ==
  /\ Len(writes) < MaxWrites
  /\ r \in Delivered
  /\ \A k \in DOMAIN writes : writes[k] # r
  /\ files' = [files EXCEPT ![r.update.referrer.path] = File(r.content)]
  /\ writes' = Append(writes, r)
  /\ UNCHANGED <<updates, pc, readText, warned, results, batch, ret, collectVars>>

(***************************************************************************)
(* Specifiers and their parsing (src/utils.ts, src/dependency.ts).         *)
(***************************************************************************)
Letters ==
  { "a", "b", "c", "d", "e", "f", "g", "h", "i", "j", "k", "l", "m",
    "n", "o", "p", "q", "r", "s", "t", "u", "v", "w", "x", "y", "z" }
Digits == { "0", "1", "2", "3", "4", "5", "6", "7", "8", "9" }

StartsWith(s, p) == Len(s) >= Len(p) /\ SubSeq(s, 1, Len(p)) = p
Drop(s, n) == SubSeq(s, n + 1, Len(s))

\* the part of s before the first character of stops (all of s without one)
UpTo(s, stops) ==
  LET at == { i \in 1..Len(s) : s[i] \in stops }
  IN  IF at = {} THEN s
      ELSE SubSeq(s, 1, (CHOOSE i \in at : \A j \in at : i <= j) - 1)

NotAUrl == [ok |-> FALSE]

\* createUrl: new URL(specifier), or nothing when the specifier does not
\* parse: a URL starts with a scheme, a letter and then letters or digits up
\* to a colon.  protocol keeps the colon, as URL.protocol does.
CreateUrl(s) ==
  LET k == IndexOf(s, <<":">>)
  IN  IF k > 1 /\ s[1] \in Letters /\ \A i \in 1..(k - 1) : s[i] \in Letters \cup Digits
      THEN [ok |-> TRUE, protocol |-> SubSeq(s, 1, k), rest |-> Drop(s, k)]
      ELSE NotAUrl

ProtoNode == <<"n", "o", "d", "e", ":">>
ProtoNpm == <<"n", "p", "m", ":">>
ProtoHttp == <<"h", "t", "t", "p", ":">>
ProtoHttps == <<"h", "t", "t", "p", "s", ":">>

\* a version token: semver digits and dots, with or without a leading tag letter
IsVersion(v) ==
  /\ Len(v) > 0
  /\ v[1] \in Digits \cup {"v"}
  /\ \A i \in 2..Len(v) : v[i] \in Digits \cup {"."}
  /\ \E i \in 1..Len(v) : v[i] \in Digits

NotVersioned == [ok |-> FALSE]

\* a split that takes the tag letter off the version
VersionAndPathUntagged(name, after) ==
  LET token == UpTo(Drop(after, 1), {"/"})
  IN  IF StartsWith(after, <<"@">>) /\ IsVersion(token)
      THEN [ok |-> TRUE, name |-> name,
            version |-> IF token[1] = "v" THEN Tail(token) ELSE token,
            path |-> Drop(after, 1 + Len(token))]
      ELSE NotVersioned

\* "@version" and what follows it, after a name
VersionAndPath(name, after) ==
  LET token == UpTo(Drop(after, 1), {"/"})
  IN  IF StartsWith(after, <<"@">>) /\ IsVersion(token)
      THEN [ok |-> TRUE, name |-> name, version |-> token,
            path |-> Drop(after, 1 + Len(token))]
      ELSE NotVersioned

\* parseProps: name, version and path of a specifier, by registry kind
ParseProps(url) ==
  IF url.protocol \in {ProtoHttp, ProtoHttps} /\ StartsWith(url.rest, <<"/", "/">>)
  THEN LET host == UpTo(Drop(url.rest, 2), {"/"})
           pathname == Drop(url.rest, 2 + Len(host))
       IN  IF StartsWith(pathname, <<"/", "s", "t", "d">>)
           THEN VersionAndPath(host \o <<"/", "s", "t", "d">>, Drop(pathname, 4))
           ELSE IF StartsWith(pathname, <<"/", "x", "/">>)
           THEN LET pkg == UpTo(Drop(pathname, 3), {"@", "/"})
                IN  VersionAndPath(host \o <<"/", "x", "/">> \o pkg, Drop(pathname, 3 + Len(pkg)))
           ELSE NotVersioned
  ELSE IF url.protocol \in {ProtoNpm, ProtoNode}
  THEN LET pkg == UpTo(url.rest, {"@"})
       IN  VersionAndPath(pkg, Drop(url.rest, Len(pkg)))
  ELSE NotVersioned

(***************************************************************************)
(* createDependencyUpdate (src/core.ts).                                   *)
(***************************************************************************)
NoUpdate == [kind |-> "undefined"]

\* the newest version a registry knows for a name, if it answers
Latest(name) ==
  IF name \in DOMAIN registry THEN registry[name] ELSE [ok |-> FALSE]

\* a composition that does not compare the latest version with the parsed one
CreateDependencyUpdateAlways(edge) ==
  LET url == CreateUrl(edge.specifier)
      props == IF url.ok THEN ParseProps(url) ELSE NotVersioned
      latest == IF props.ok THEN Latest(props.name) ELSE [ok |-> FALSE]
  IN  IF ~props.ok \/ ~latest.ok THEN NoUpdate
      ELSE [kind |-> "update", specifier |-> edge.specifier, code |-> edge.code,
            name |-> props.name, path |-> props.path,
            version |-> [from |-> props.version, to |-> latest.version]]

\* createDependencyUpdate: nothing for a specifier without a version token,
\* for a name the registry does not answer for, and for a version that is
\* already the latest; otherwise the update, with the edge's specifier and
\* code span as they are.
CreateDependencyUpdate(edge) ==
  LET url == CreateUrl(edge.specifier)
      props == IF url.ok THEN ParseProps(url) ELSE NotVersioned
      latest == IF props.ok THEN Latest(props.name) ELSE [ok |-> FALSE]
  IN  IF ~props.ok \/ ~latest.ok THEN NoUpdate
      ELSE IF latest.version = props.version THEN NoUpdate
      ELSE [kind |-> "update", specifier |-> edge.specifier, code |-> edge.code,
            name |-> props.name, path |-> props.path,
            version |-> [from |-> props.version, to |-> latest.version]]

(***************************************************************************)
(* createLoadCallback, mod.ts 100-129.                                     *)
(***************************************************************************)
\* a policy that hands npm: specifiers to the default load
LoadCallbackNpmLoaded(options, specifier) ==
  LET url == CreateUrl(specifier)
  IN  IF ~url.ok THEN "invalid"
      ELSE IF url.protocol = ProtoNode THEN "external"
      ELSE IF url.protocol \in {ProtoHttp, ProtoHttps}
      THEN (IF options.loadRemote THEN "load" ELSE "external")
      ELSE "load"

\* a callback that hands a specifier it cannot parse to defaultLoad
LoadCallbackLenient(options, specifier) ==
  LET url == CreateUrl(specifier)
  IN  IF ~url.ok THEN "load"
      ELSE IF url.protocol \in {ProtoNode, ProtoNpm} THEN "external"
      ELSE IF url.protocol \in {ProtoHttp, ProtoHttps}
      THEN (IF options.loadRemote THEN "load" ELSE "external")
      ELSE "load"

\* What the load callback answers for a specifier: "invalid" when it throws
\* 'Invalid specifier', "external" for { kind: "external" }, "load" for
\* defaultLoad(specifier).
LoadCallback(options, specifier) ==
  LET url == CreateUrl(specifier)
  IN  IF ~url.ok THEN "invalid"
      ELSE IF url.protocol \in {ProtoNode, ProtoNpm} THEN "external"
      ELSE IF url.protocol \in {ProtoHttp, ProtoHttps}
      THEN (IF options.loadRemote THEN "load" ELSE "external")
      ELSE "load"

(***************************************************************************)
(* collectDependencyUpdateAll, mod.ts 75-98, and DenoGraph.ensureInit,     *)
(* mod.ts 55-65.                                                           *)
(***************************************************************************)
\* file:///mod.ts, what toFileUrl(resolve(rootModule)).href gives
RootSpecifier == <<"f", "i", "l", "e", ":", "/", "/", "/", "m", "o", "d", ".", "t", "s">>

GraphStart == [queue |-> <<RootSpecifier>>, seen |-> {RootSpecifier}, modules |-> << >>]
NoGraph == [queue |-> << >>, seen |-> {}, modules |-> << >>]

\* The call, up to the await of ensureInit: initDenoGraph is invoked unless
\* the flag is set; with the flag set the call goes on to createGraph.
EnsureInit(k) ==
  /\ cpc[k] = "idle"
  /\ IF initialized
     THEN /\ cpc' = [cpc EXCEPT ![k] = "graph"]
          /\ graph' = [graph EXCEPT ![k] = GraphStart]
          /\ initCalls' = initCalls
     ELSE /\ cpc' = [cpc EXCEPT ![k] = "init"]
          /\ graph' = graph
          /\ initCalls' = initCalls + 1
  /\ UNCHANGED <<world, registry, opts, initialized, answers, edges, composed, collected, patchVars>>

\* initDenoGraph resolves: the flag is set and createGraph is called.
InitDenoGraphDone(k) ==
  /\ cpc[k] = "init"
  /\ initialized' = TRUE
  /\ cpc' = [cpc EXCEPT ![k] = "graph"]
  /\ graph' = [graph EXCEPT ![k] = GraphStart]
  /\ UNCHANGED <<world, registry, opts, initCalls, answers, edges, composed, collected, patchVars>>

\* the targets of deps that are new to the graph, each once, in order
RECURSIVE NewTargets(_, _)
NewTargets(deps, seen) ==
  IF deps = << >> THEN << >>
  ELSE IF Head(deps).target \in seen THEN NewTargets(Tail(deps), seen)
  ELSE <<Head(deps).target>> \o NewTargets(Tail(deps), seen \cup {Head(deps).target})

\* the module the graph gets for a specifier the load callback answered for
LoadedModule(s, answer) ==
  IF answer = "load" /\ s \in DOMAIN world
  THEN [specifier |-> s, kind |-> "esm", dependencies |-> world[s]]
  ELSE [specifier |-> s, kind |-> IF answer = "external" THEN "external" ELSE "missing",
        dependencies |-> << >>]

\* createGraph asks the load callback about the next specifier: the call
\* fails when the callback throws; otherwise the module joins the graph and
\* the targets of its dependencies are asked about in turn.
Load(k) ==
  /\ cpc[k] = "graph"
  /\ graph[k].queue # << >>
  /\ LET s == Head(graph[k].queue)
         a == LoadCallback(opts[k], s)
         m == LoadedModule(s, a)
         new == NewTargets(m.dependencies, graph[k].seen)
     IN  /\ answers' = [answers EXCEPT ![k] = @ \cup {[specifier |-> s, kind |-> a]}]
         /\ IF a = "invalid"
            THEN /\ cpc' = [cpc EXCEPT ![k] = "rejected"]
                 /\ graph' = graph
            ELSE /\ cpc' = cpc
                 /\ graph' = [graph EXCEPT ![k] =
                      [queue |-> Tail(graph[k].queue) \o new,
                       seen |-> graph[k].seen \cup { new[i] : i \in DOMAIN new },
                       modules |-> Append(graph[k].modules, m)]]
  /\ UNCHANGED <<world, registry, opts, initialized, initCalls, edges, composed, collected, patchVars>>

\* graph.modules.flatMap(module => module.dependencies?.map(...)): every
\* edge of every module, with the module that holds it
RECURSIVE FlatEdges(_)
FlatEdges(modules) ==
  IF modules = << >> THEN << >>
  ELSE [i \in DOMAIN Head(modules).dependencies |->
          [referrer |-> Head(modules).specifier, edge |-> Head(modules).dependencies[i]]]
       \o FlatEdges(Tail(modules))

\* createGraph resolves: a createDependencyUpdate is started for every edge.
FanOut(k) ==
  /\ cpc[k] = "graph"
  /\ graph[k].queue = << >>
  /\ cpc' = [cpc EXCEPT ![k] = "compose"]
  /\ edges' = [edges EXCEPT ![k] = FlatEdges(graph[k].modules)]
  /\ UNCHANGED <<world, registry, opts, initialized, initCalls, graph, answers, composed, collected, patchVars>>

\* a record that names the imported module as the referrer
WithTargetAsReferrer(update, referrer) ==
  [specifier |-> update.specifier, code |-> update.code, name |-> update.name,
   path |-> update.path, version |-> update.version, referrer |-> update.specifier]

\* { ...update, referrer }
WithReferrer(update, referrer) ==
  [specifier |-> update.specifier, code |-> update.code, name |-> update.name,
   path |-> update.path, version |-> update.version, referrer |-> referrer]

\* a push that overwrites the last element instead of appending
PushOverLast(arr, update, referrer) ==
  IF arr = << >> THEN <<WithReferrer(update, referrer)>>
  ELSE [arr EXCEPT ![Len(arr)] = WithReferrer(update, referrer)]

\* an unshift in place of the push
PushFront(arr, update, referrer) == <<WithReferrer(update, referrer)>> \o arr

\* updates.push({ ...update, referrer: module.specifier })
PushUpdate(arr, update, referrer) == Append(arr, WithReferrer(update, referrer))

\* a wrapper that fails the call when a composition gives nothing
ComposeDoneStrict(k, e) ==
  /\ cpc[k] = "compose"
  /\ e \in DOMAIN edges[k] \ composed[k]
  /\ LET update == CreateDependencyUpdate(edges[k][e].edge)
     IN  /\ collected' = [collected EXCEPT ![k] =
               IF update.kind = "update"
               THEN PushUpdate(@, update, edges[k][e].referrer) ELSE @]
         /\ cpc' = [cpc EXCEPT ![k] = IF update.kind = "update" THEN @ ELSE "rejected"]
  /\ composed' = [composed EXCEPT ![k] = @ \cup {e}]
  /\ UNCHANGED <<world, registry, opts, initialized, initCalls, graph, answers, edges, patchVars>>

\* The composition of edge e settles and the wrapper pushes its update, if
\* any: update ? updates.push(...) : undefined.
ComposeDone(k, e) ==
  /\ cpc[k] \in {"compose", "returned"}
  /\ e \in DOMAIN edges[k] \ composed[k]
  /\ LET update == CreateDependencyUpdate(edges[k][e].edge)
     IN  collected' = [collected EXCEPT ![k] =
           IF update.kind = "update"
           THEN PushUpdate(@, update, edges[k][e].referrer) ELSE @]
  /\ composed' = [composed EXCEPT ![k] = @ \cup {e}]
  /\ UNCHANGED <<world, registry, opts, initialized, initCalls, cpc, graph, answers, edges, patchVars>>

\* a wait that ends with the first composition to settle
AnyComposed(k) == composed[k] # {} \/ DOMAIN edges[k] = {}

\* Promise.all: every composition has settled
AllComposed(k) == composed[k] = DOMAIN edges[k]

\* Promise.all resolves and the updates are returned.
CollectReturn(k) ==
  /\ cpc[k] = "compose"
  /\ AllComposed(k)
  /\ cpc' = [cpc EXCEPT ![k] = "returned"]
  /\ UNCHANGED <<world, registry, opts, initialized, initCalls, graph, answers, edges, composed, collected, patchVars>>

(***************************************************************************)
(* The inputs: the updates the caller holds and the files on disk.         *)
(***************************************************************************)
\* specifiers with the version token parsed from them (version.from occurs
\* in the specifier; in "s@1/1" it occurs twice) and the version resolved
\* for them (in two cases longer than the token it replaces)
Bumps ==
  { [specifier |-> <<"n", "@", "1">>,           from |-> <<"1">>,      to |-> <<"2">>],
    [specifier |-> <<"s", "@", "1", "/", "1">>, from |-> <<"1">>,      to |-> <<"2">>],
    [specifier |-> <<"s", "@", "1", "/", "1">>, from |-> <<"1">>,      to |-> <<"1", "0">>],
    [specifier |-> <<"x", "@", "v", "1">>,      from |-> <<"v", "1">>, to |-> <<"v", "1", "0">>] }

Update(e, t, r, c) ==
  [specifier |-> e.specifier, referrer |-> r,
   version |-> [from |-> e.from, to |-> t], code |-> c]

\* every span within one line, and spans over several lines that start and
\* end at the first or the last offset
Spans ==
  { Span(sl, sc, sl, ec) : sl \in 0..MaxLine, sc \in 0..MaxChar, ec \in 0..MaxChar }
  \cup { Span(sl, sc, el, ec) : sl \in 0..MaxLine, el \in 0..MaxLine,
                                sc \in {0, MaxChar}, ec \in {0, MaxChar} }

\* "n@1";
TextOne == <<Quote, "n", "@", "1", Quote, ";">>
\* x"n@1"
\* "s@1/1"
TextTwo == <<"x", Quote, "n", "@", "1", Quote, NL, Quote, "s", "@", "1", "/", "1", Quote>>
\* a text that ends with a line break
TextEndNL == <<Quote, "n", "@", "1", Quote, NL>>
Texts == { TextOne, TextTwo, TextEndNL, << >> }
\* "n@1","s@1/1"
TextPair ==
  <<Quote, "n", "@", "1", Quote, ",", Quote, "s", "@", "1", "/", "1", Quote>>

EdgeN == [specifier |-> <<"n", "@", "1">>, from |-> <<"1">>]
EdgeS == [specifier |-> <<"s", "@", "1", "/", "1">>, from |-> <<"1">>]

\* the updates a batch is drawn from: three patchable ones (two of them in
\* the same file), one without a span, one over two lines, one whose file
\* cannot be read and one whose referrer is a remote module
Pool ==
  << Update(EdgeN, <<"2">>, FileA, Span(0, 1, 0, 6)),
     Update(EdgeS, <<"1", "0">>, FileA, Span(1, 0, 1, 7)),
     Update(EdgeN, <<"1", "0">>, FileB, Span(0, 0, 0, 5)),
     Update(EdgeN, <<"2">>, FileA, NoCode),
     Update(EdgeS, <<"2">>, FileB, Span(0, 0, 1, 3)),
     Update(EdgeN, <<"2">>, FileM, Span(0, 0, 0, 5)),
     Update(EdgeS, <<"2">>, Remote, Span(0, 0, 0, 7)) >>

\* the members of a set of indices, in increasing order
Ascending(S) ==
  [k \in 1..Cardinality(S) |-> CHOOSE x \in S : Cardinality({ y \in S : y < x }) = k - 1]

Batches ==
  { [k \in 1..Cardinality(S) |-> Pool[Ascending(S)[k]]] :
      S \in { T \in SUBSET (1..Len(Pool)) : Cardinality(T) <= MaxBatch } }

PatchIdle ==
  /\ pc = [c \in Calls |-> [i \in DOMAIN updates |-> "idle"]]
  /\ readText = [c \in Calls |-> [i \in DOMAIN updates |-> NotRead]]
  /\ warned = {}
  /\ results = << >>
  /\ batch = "idle"
  /\ ret = [i \in DOMAIN updates |-> NoValue]
  /\ writes = << >>

\* nothing is being collected
CollectIdle ==
  /\ world = << >>
  /\ registry = << >>
  /\ opts = << >>
  /\ initialized = FALSE
  /\ initCalls = 0
  /\ cpc = << >>
  /\ graph = << >>
  /\ answers = << >>
  /\ edges = << >>
  /\ composed = << >>
  /\ collected = << >>

\* one update with any span, over any of the texts
InitOne ==
  /\ \E e \in Bumps, c \in Spans \cup {NoCode} :
       updates = <<Update(e, e.to, FileA, c)>>
  /\ \E t \in Texts : files = [p \in Paths |-> IF p = "a" THEN File(t) ELSE NoFile]
  /\ PatchIdle
  /\ CollectIdle

\* a batch drawn from the pool, over fixed files
InitBatch ==
  /\ updates \in Batches
  /\ files = [p \in Paths |->
                IF p = "a" THEN File(TextTwo) ELSE IF p = "b" THEN File(TextOne) ELSE NoFile]
  /\ PatchIdle
  /\ CollectIdle

\* two updates for the two literals of one line of one file
InitPair ==
  /\ \E n \in {<<"2">>, <<"1", "0">>}, t \in {<<"2">>, <<"1", "0">>} :
       updates = << Update(EdgeN, n, FileA, Span(0, 0, 0, 5)),
                    Update(EdgeS, t, FileA, Span(0, 6, 0, 13)) >>
  /\ files = [p \in Paths |-> IF p = "a" THEN File(TextPair) ELSE NoFile]
  /\ PatchIdle
  /\ CollectIdle

Init == InitOne \/ InitBatch \/ InitPair

Next ==
  \/ ExecDependencyUpdateAll
  \/ ExecDependencyUpdateAllReturn
  \/ \E i \in DOMAIN updates : ExecDependencyUpdate(i)
  \/ \E c \in Calls, i \in DOMAIN updates : ReadTextFile(c, i)
  \/ \E c \in Calls, i \in DOMAIN updates : SettleSkipped(c, i)
  \/ \E c \in Calls, i \in DOMAIN updates : SettleThrown(c, i)
  \/ \E r \in Delivered : WriteBack(r)

\* the patcher, over the updates and files of Init
Spec == Init /\ [][Next]_vars

(***************************************************************************)
(* The inputs of the collector: the module graph and the registries.       *)
(***************************************************************************)
Https == <<"h", "t", "t", "p", "s", ":", "/", "/">>
Host == <<"d", ".", "l">>
\* https://d.l/std@0.1.0/v.ts
StdSpecifier ==
  Https \o Host \o <<"/", "s", "t", "d", "@", "0", ".", "1", ".", "0", "/", "v", ".", "t", "s">>
\* https://d.l/std/v.ts
UnpinnedSpecifier == Https \o Host \o <<"/", "s", "t", "d", "/", "v", ".", "t", "s">>
\* https://d.l/x/hono@v0.1.0
HonoSpecifier ==
  Https \o Host \o <<"/", "x", "/", "h", "o", "n", "o", "@", "v", "0", ".", "1", ".", "0">>
\* npm:emoji@1.0.0
NpmSpecifier == <<"n", "p", "m", ":", "e", "m", "o", "j", "i", "@", "1", ".", "0", ".", "0">>
\* node:fs
NodeSpecifier == <<"n", "o", "d", "e", ":", "f", "s">>
\* http://d.l/x/old@0.1.0/m.ts
HttpSpecifier ==
  <<"h", "t", "t", "p", ":", "/", "/">> \o Host
    \o <<"/", "x", "/", "o", "l", "d", "@", "0", ".", "1", ".", "0", "/", "m", ".", "t", "s">>
\* ./lib.ts, which resolves to file:///lib.ts
LibRaw == <<".", "/", "l", "i", "b", ".", "t", "s">>
\* a target without a scheme, which new URL() does not take
BadSpecifier == <<"b", "a", "d">>
LibSpecifier == <<"f", "i", "l", "e", ":", "/", "/", "/", "l", "i", "b", ".", "t", "s">>

Edge(raw, target, code) == [specifier |-> raw, target |-> target, code |-> code]

\* the edges the root module's import list is drawn from
EdgePool ==
  << Edge(StdSpecifier, StdSpecifier, Span(0, 7, 0, 35)),
     Edge(HonoSpecifier, HonoSpecifier, Span(1, 7, 1, 34)),
     Edge(NpmSpecifier, NpmSpecifier, Span(2, 7, 2, 24)),
     Edge(LibRaw, LibSpecifier, Span(3, 7, 3, 17)),
     Edge(NodeSpecifier, NodeSpecifier, Span(4, 7, 4, 16)),
     Edge(UnpinnedSpecifier, UnpinnedSpecifier, Span(5, 7, 5, 29)),
     Edge(HttpSpecifier, HttpSpecifier, Span(6, 7, 6, 9)),
     Edge(NpmSpecifier, NpmSpecifier, NoCode) >>

RootImports ==
  { [k \in 1..Cardinality(S) |-> EdgePool[Ascending(S)[k]]] :
      S \in { T \in SUBSET (1..Len(EdgePool)) : Cardinality(T) <= MaxEdges } }

\* lib.ts imports the standard library too; the remote modules import on
Modules(rootImports) ==
  (RootSpecifier :> rootImports)
  @@ (LibSpecifier :> <<Edge(StdSpecifier, StdSpecifier, Span(1, 7, 1, 35))>>)
  @@ (StdSpecifier :> <<Edge(HonoSpecifier, HonoSpecifier, Span(9, 0, 9, 27))>>)
  @@ (HttpSpecifier :> << Edge(NpmSpecifier, NpmSpecifier, Span(2, 0, 3, 1)),
                          Edge(BadSpecifier, BadSpecifier, Span(4, 0, 4, 5)) >>)

StdName == Host \o <<"/", "s", "t", "d">>
HonoName == Host \o <<"/", "x", "/", "h", "o", "n", "o">>
NpmName == <<"e", "m", "o", "j", "i">>
OldName == Host \o <<"/", "x", "/", "o", "l", "d">>

Answer(v) == [ok |-> TRUE, version |-> v]
NoAnswer == [ok |-> FALSE]

\* what a registry may say about each name: a newer version, the version
\* the specifiers already have, or nothing (unreachable, unknown name)
Registries ==
  { (StdName :> s) @@ (HonoName :> h) @@ (NpmName :> n)
      @@ (OldName :> Answer(<<"0", ".", "1", ".", "0">>)) :
      s \in { Answer(<<"0", ".", "2", ".", "0">>), Answer(<<"0", ".", "1", ".", "0">>), NoAnswer },
      h \in { Answer(<<"v", "0", ".", "2", ".", "0">>), NoAnswer },
      n \in { Answer(<<"1", ".", "1", ".", "0">>), NoAnswer } }

Collectors == {1}

InitCollect ==
  /\ \E imports \in RootImports : world = Modules(imports)
  /\ registry \in Registries
  /\ \E b \in BOOLEAN : opts = [k \in Collectors |-> [loadRemote |-> b]]
  /\ initialized = FALSE
  /\ initCalls = 0
  /\ cpc = [k \in Collectors |-> "idle"]
  /\ graph = [k \in Collectors |-> NoGraph]
  /\ answers = [k \in Collectors |-> {}]
  /\ edges = [k \in Collectors |-> << >>]
  /\ composed = [k \in Collectors |-> {}]
  /\ collected = [k \in Collectors |-> << >>]
  /\ updates = << >>
  /\ files = [p \in Paths |-> NoFile]
  /\ PatchIdle

CollectNext ==
  \/ \E k \in DOMAIN cpc : EnsureInit(k)
  \/ \E k \in DOMAIN cpc : InitDenoGraphDone(k)
  \/ \E k \in DOMAIN cpc : Load(k)
  \/ \E k \in DOMAIN cpc : FanOut(k)
  \/ \E k \in DOMAIN cpc : \E e \in DOMAIN edges[k] : ComposeDone(k, e)
  \/ \E k \in DOMAIN cpc : CollectReturn(k)

\* the collector, over the module graphs and registries of InitCollect
SpecCollect == InitCollect /\ [][CollectNext]_vars

\* two calls of collectDependencyUpdateAll that may be in flight together
ConcurrentCollectors == {1, 2}

\* both calls over one module graph: the root module imports the standard
\* library and hono, for both of which the registry has a newer version
InitConcurrent ==
  /\ world = Modules(<<EdgePool[1], EdgePool[2]>>)
  /\ registry = (StdName :> Answer(<<"0", ".", "2", ".", "0">>))
                  @@ (HonoName :> Answer(<<"v", "0", ".", "2", ".", "0">>))
                  @@ (NpmName :> NoAnswer)
                  @@ (OldName :> Answer(<<"0", ".", "1", ".", "0">>))
  /\ opts = [k \in ConcurrentCollectors |-> [loadRemote |-> FALSE]]
  /\ initialized = FALSE
  /\ initCalls = 0
  /\ cpc = [k \in ConcurrentCollectors |-> "idle"]
  /\ graph = [k \in ConcurrentCollectors |-> NoGraph]
  /\ answers = [k \in ConcurrentCollectors |-> {}]
  /\ edges = [k \in ConcurrentCollectors |-> << >>]
  /\ composed = [k \in ConcurrentCollectors |-> {}]
  /\ collected = [k \in ConcurrentCollectors |-> << >>]
  /\ updates = << >>
  /\ files = [p \in Paths |-> NoFile]
  /\ PatchIdle

\* two calls of the collector, started in any order and at any time
SpecConcurrent == InitConcurrent /\ [][CollectNext]_vars

\* a run that collects over one module graph and patches a batch: either one
\* of four updates (a patchable one, one over two lines, one whose file
\* cannot be read and one whose referrer is a remote module), or one of three
\* (two patchable ones and one without a span)
InitRun ==
  /\ world = Modules(<<EdgePool[1], EdgePool[6]>>)
  /\ registry = (StdName :> Answer(<<"0", ".", "2", ".", "0">>))
                  @@ (HonoName :> Answer(<<"v", "0", ".", "2", ".", "0">>))
                  @@ (NpmName :> NoAnswer)
                  @@ (OldName :> Answer(<<"0", ".", "1", ".", "0">>))
  /\ opts = [k \in Collectors |-> [loadRemote |-> FALSE]]
  /\ initialized = FALSE
  /\ initCalls = 0
  /\ cpc = [k \in Collectors |-> "idle"]
  /\ graph = [k \in Collectors |-> NoGraph]
  /\ answers = [k \in Collectors |-> {}]
  /\ edges = [k \in Collectors |-> << >>]
  /\ composed = [k \in Collectors |-> {}]
  /\ collected = [k \in Collectors |-> << >>]
  /\ updates \in { <<Pool[1], Pool[5], Pool[6], Pool[7]>>, <<Pool[1], Pool[2], Pool[4]>> }
  /\ files = [p \in Paths |->
                IF p = "a" THEN File(TextTwo) ELSE IF p = "b" THEN File(TextOne) ELSE NoFile]
  /\ PatchIdle

\* the collector and the patcher at work in one run
SpecRun == InitRun /\ [][Next \/ CollectNext]_vars

(***************************************************************************)
(* Properties of the patcher.                                              *)
(***************************************************************************)
Tasks == { <<c, i>> : c \in Calls, i \in DOMAIN updates }

\* the results a task has handed over so far
TaskResults(c, i) ==
  IF c = "one"
  THEN (IF ret[i].kind = "result" THEN {ret[i]} ELSE {})
  ELSE { results[k] : k \in { j \in DOMAIN results : results[j].update = updates[i] } }

SingleLine(u) == u.code.present /\ u.code.sl = u.code.el

\* the span's line is a line of the text the task read
ReadTargetLine(c, i) ==
  /\ SingleLine(updates[i])
  /\ readText[c][i].kind = "text"
  /\ updates[i].code.sl < Len(Split(readText[c][i].text))

\* the last n characters of s
LastChars(s, n) == SubSeq(s, Len(s) - n + 1, Len(s))

\* new differs from old at most within [sc, ec) of line number l (zero-based)
SameOutsideSpan(old, new, l, sc, ec) ==
  LET ol == Split(old)
      nl == Split(new)
      before == Slice(ol[l + 1], 0, sc)
      after  == SliceFrom(ol[l + 1], ec)
  IN  /\ Len(nl) = Len(ol)
      /\ \A k \in 1..Len(ol) : k # l + 1 => nl[k] = ol[k]
      /\ Len(nl[l + 1]) >= Len(before) + Len(after)
      /\ SubSeq(nl[l + 1], 1, Len(before)) = before
      /\ LastChars(nl[l + 1], Len(after)) = after

\* C1: a single-line update whose line exists in the text read gets a result,
\* and the result's content is the text read except within
\* [start.character, end.character) of the target line: as many lines, every
\* other line the same, and on the target line the text before
\* start.character and the text from end.character on unchanged.
C1_FrameOfPatch ==
  \A t \in Tasks :
    LET c == t[1]
        i == t[2]
        u == updates[i]
    IN  (ReadTargetLine(c, i) /\ pc[c][i] # "reading") =>
          /\ pc[c][i] = "settled"
          /\ TaskResults(c, i) # {}
          /\ \A r \in TaskResults(c, i) :
               SameOutsideSpan(readText[c][i].text, r.content, u.code.sl, u.code.sc, u.code.ec)

\* a two-line text was patched on its second line, and the content differs
\* from the text read
C1_Witness ==
  \E t \in Tasks :
    /\ ReadTargetLine(t[1], t[2])
    /\ updates[t[2]].code.sl = 1
    /\ updates[t[2]].code.sc < updates[t[2]].code.ec
    /\ \E r \in TaskResults(t[1], t[2]) : r.content # readText[t[1]][t[2]].text

\* s with its first occurrence of p replaced by r, said without replace():
\* the occurrence at k with no occurrence starting before k
FirstOccurrenceReplaced(s, p, r) ==
  LET occ(k) == k + Len(p) - 1 <= Len(s) /\ SubSeq(s, k, k + Len(p) - 1) = p
      at == { j \in 1..Len(s) : occ(j) }
      k == CHOOSE j \in at : \A m \in at : j <= m
  IN  SubSeq(s, 1, k - 1) \o r \o SubSeq(s, k + Len(p), Len(s))

\* C2: the text put in place of [start.character, end.character) on the
\* target line is a quote, the specifier with the first occurrence only of
\* version.from replaced by version.to, and a quote.
C2_ReplacementText ==
  \A t \in Tasks :
    LET c == t[1]
        i == t[2]
        u == updates[i]
    IN  ReadTargetLine(c, i) =>
          \A r \in TaskResults(c, i) :
            LET old == Split(readText[c][i].text)[u.code.sl + 1]
                new == Split(r.content)[u.code.sl + 1]
            IN  new = Slice(old, 0, u.code.sc)
                      \o <<Quote>>
                      \o FirstOccurrenceReplaced(u.specifier, u.version.from, u.version.to)
                      \o <<Quote>>
                      \o SliceFrom(old, u.code.ec)

\* a specifier in which version.from occurs twice was patched
C2_Witness ==
  \E t \in Tasks :
    /\ ReadTargetLine(t[1], t[2])
    /\ updates[t[2]].specifier = <<"s", "@", "1", "/", "1">>
    /\ updates[t[2]].version.to = <<"1", "0">>
    /\ TaskResults(t[1], t[2]) # {}

MultiLine(u) == u.code.present /\ u.code.sl # u.code.el

\* what holds of a task that was started on an update the patcher skips
SkippedTask(c, i, kind) ==
  /\ <<c, i, kind>> \in warned
  /\ pc[c][i] \in {"skipped", "settled"}
  /\ readText[c][i] = NotRead
  /\ TaskResults(c, i) = {}
  /\ (c = "one" /\ pc[c][i] = "settled") => ret[i] = Undefined

\* a step of a task on such an update leaves the files as they are
SkippedStep(kind(_)) ==
  \A t \in Tasks :
    (kind(updates[t[2]]) /\ pc'[t[1]][t[2]] # pc[t[1]][t[2]]) => files' = files

SkipsMultiLine == \A t \in Tasks : (MultiLine(updates[t[2]]) /\ pc[t[1]][t[2]] # "idle") => SkippedTask(t[1], t[2], "NotASingleLine")

\* C3: an update whose span has start.line # end.line is reported and gets
\* no result, and its referrer is neither read nor written.
C3_MultiLineSkipped == [](SkipsMultiLine) /\ [][SkippedStep(MultiLine)]_vars

\* direct and batch calls on a multi-line update have both returned
C3_Witness ==
  \E i \in DOMAIN updates :
    /\ MultiLine(updates[i])
    /\ pc["one"][i] = "settled"
    /\ pc["all"][i] = "settled"

Unlocated(u) == ~u.code.present

SkipsUnlocated == \A t \in Tasks : (Unlocated(updates[t[2]]) /\ pc[t[1]][t[2]] # "idle") => SkippedTask(t[1], t[2], "NoCodeFound")

\* C4: an update without a code span is reported and gets no result, and its
\* referrer is not read: it is never patched.
C4_NoCodeSkipped == [](SkipsUnlocated) /\ [][SkippedStep(Unlocated)]_vars

\* direct and batch calls on an update without a span have both returned
C4_Witness ==
  \E i \in DOMAIN updates :
    /\ Unlocated(updates[i])
    /\ pc["one"][i] = "settled"
    /\ pc["all"][i] = "settled"

\* C5: no step of execDependencyUpdate or execDependencyUpdateAll changes a
\* file: the files change only when the caller writes.
C5_EngineWritesNothing == [][writes' = writes => files' = files]_vars

\* a batch returned two results and a direct call one, each with a content
\* other than the referrer's text, and the files are as they were
C5_Witness ==
  /\ writes = << >>
  /\ batch = "returned"
  /\ Len(results) >= 2
  /\ \E i \in DOMAIN updates : ret[i].kind = "result"
  /\ \A r \in Delivered : files[r.update.referrer.path] # File(r.content)

Patchable(u) == SingleLine(u)

\* C6: the collection execDependencyUpdateAll returns holds one result for
\* each update with a single-line span and none for the others, whatever the
\* order in which the patches completed; an update that is skipped never
\* fails its task, so it does not keep the batch from returning.
C6_BatchReturnsSuccesses ==
  /\ batch = "returned" =>
       /\ \A i \in DOMAIN updates :
            Cardinality({ k \in DOMAIN results : results[k].update = updates[i] })
              = IF Patchable(updates[i]) THEN 1 ELSE 0
       /\ Len(results) = Cardinality({ i \in DOMAIN updates : Patchable(updates[i]) })
  /\ \A i \in DOMAIN updates : ~Patchable(updates[i]) => pc["all"][i] # "failed"

\* three patchable updates, two of them in one file, gave three results
C6_Witness ==
  /\ batch = "returned"
  /\ Len(results) = 3
  /\ \E j, k \in DOMAIN results :
       j # k /\ results[j].update.referrer = results[k].update.referrer

\* a batch with skipped updates returned the result of its patchable one
C6_WitnessSkipped ==
  /\ batch = "returned"
  /\ Len(updates) = 3
  /\ Len(results) = 1

\* C7: a failed read of one update's referrer does not fail the batch: the
\* call still delivers the results of the updates whose files were read.
C7_ReadFailureKeepsBatch ==
  \A i, j \in DOMAIN updates :
    (/\ readText["all"][i] = ReadFailed
     /\ readText["all"][j].kind = "text"
     /\ pc["all"][j] = "settled")
    => batch # "rejected"

(***************************************************************************)
(* Properties of the collector.                                            *)
(***************************************************************************)
\* what the composition of each edge of call k gives
Compositions(k) ==
  [e \in DOMAIN edges[k] |-> CreateDependencyUpdate(edges[k][e].edge)]

\* the update each upgradeable edge yields, as the collection holds it
Expected(k) ==
  LET made == Compositions(k)
  IN  [e \in { f \in DOMAIN edges[k] : made[f].kind = "update" } |->
         WithReferrer(made[e], edges[k][e].referrer)]

\* C8: over a graph with N upgradeable edges the collection returned has
\* length N and holds the update of each of them as often as the graph has
\* it, whatever the order in which the compositions completed: none is lost
\* and none is there twice.
C8_CollectsEveryUpdateOnce ==
  \A k \in DOMAIN cpc :
    cpc[k] = "returned" =>
      LET exp == Expected(k)
      IN  /\ Len(collected[k]) = Cardinality(DOMAIN exp)
          /\ \A e \in DOMAIN exp :
               Cardinality({ j \in DOMAIN collected[k] : collected[k][j] = exp[e] })
                 = Cardinality({ f \in DOMAIN exp : exp[f] = exp[e] })

\* three upgradeable edges gave three updates, the update of the last edge
\* having been pushed first
C8_Witness ==
  \E k \in DOMAIN cpc :
    /\ cpc[k] = "returned"
    /\ Len(collected[k]) = 3
    /\ Len(edges[k]) = 3
    /\ DOMAIN Expected(k) = {1, 2, 3}
    /\ collected[k][1] = Expected(k)[3]
    /\ collected[k][3] = Expected(k)[1]

\* C9: an edge whose specifier does not parse or whose name does not resolve
\* takes only its own update away: the call does not fail once the fan-out
\* has started, every other settled edge has its update in the collection,
\* and the collection holds nothing else.
C9_EdgeFailureIsLocal ==
  \A k \in DOMAIN cpc :
    LET exp == Expected(k)
        up == DOMAIN exp \cap composed[k]
    IN  /\ edges[k] # << >> => cpc[k] \in {"compose", "returned"}
        /\ \A e \in up : \E j \in DOMAIN collected[k] : collected[k][j] = exp[e]
        /\ Len(collected[k]) = Cardinality(up)

\* a call returned an update although one edge did not parse and another did
\* not resolve
C9_Witness ==
  \E k \in DOMAIN cpc :
    /\ cpc[k] = "returned"
    /\ Len(collected[k]) >= 1
    /\ \E e \in DOMAIN edges[k] : ~CreateUrl(edges[k][e].edge.specifier).ok
    /\ \E e \in DOMAIN edges[k] :
         /\ CreateUrl(edges[k][e].edge.specifier).ok
         /\ ParseProps(CreateUrl(edges[k][e].edge.specifier)).ok
         /\ ~Latest(ParseProps(CreateUrl(edges[k][e].edge.specifier)).name).ok

\* the scheme of a specifier: what stands before its first colon
SchemeOf(s) == UpTo(s, {":"})

\* the answer the policy is to give
PolicyAnswer(loadRemote, s) ==
  IF SchemeOf(s) \in { <<"n", "o", "d", "e">>, <<"n", "p", "m">> } THEN "external"
  ELSE IF SchemeOf(s) \in { <<"h", "t", "t", "p">>, <<"h", "t", "t", "p", "s">> }
  THEN (IF loadRemote THEN "load" ELSE "external")
  ELSE "load"

\* C10: for a specifier that is a URL the load callback answers external
\* for node: and npm: specifiers whatever loadRemote is, external for http:
\* and https: ones unless loadRemote is set, and the default load for all
\* others; with loadRemote false no module of these four schemes is loaded
\* into the graph.
C10_LoadPolicy ==
  \A k \in DOMAIN cpc :
    /\ \A a \in answers[k] :
         a.kind # "invalid" => a.kind = PolicyAnswer(opts[k].loadRemote, a.specifier)
    /\ \A j \in DOMAIN graph[k].modules :
         LET m == graph[k].modules[j]
         IN  /\ SchemeOf(m.specifier) \in { <<"n", "o", "d", "e">>, <<"n", "p", "m">> }
                  => m.kind = "external"
             /\ (~opts[k].loadRemote
                  /\ SchemeOf(m.specifier) \in { <<"h", "t", "t", "p">>, <<"h", "t", "t", "p", "s">> })
                  => m.kind = "external"

\* with loadRemote set a remote module was loaded and an npm: specifier it
\* imports was answered external
C10_Witness ==
  \E k \in DOMAIN cpc :
    /\ opts[k].loadRemote
    /\ [specifier |-> HttpSpecifier, kind |-> "load"] \in answers[k]
    /\ [specifier |-> NpmSpecifier, kind |-> "external"] \in answers[k]
    /\ [specifier |-> LibSpecifier, kind |-> "load"] \in answers[k]

\* with the default options https:, npm: and node: specifiers were answered
\* external and the graph was built
C10_WitnessDefault ==
  \E k \in DOMAIN cpc :
    /\ ~opts[k].loadRemote
    /\ cpc[k] = "returned"
    /\ [specifier |-> StdSpecifier, kind |-> "external"] \in answers[k]
    /\ [specifier |-> NpmSpecifier, kind |-> "external"] \in answers[k]
    /\ [specifier |-> NodeSpecifier, kind |-> "external"] \in answers[k]

PropsOf(specifier) ==
  LET url == CreateUrl(specifier)
  IN  IF url.ok THEN ParseProps(url) ELSE NotVersioned

\* the edge of call k an update was made for: the edge of its referrer with
\* its specifier and code span
FromEdge(k, e, u) ==
  /\ u.referrer = edges[k][e].referrer
  /\ u.specifier = edges[k][e].edge.specifier
  /\ u.code = edges[k][e].edge.code

\* C12: an edge whose specifier has no version token, whose name has no
\* answer or whose latest version equals the parsed one yields no update;
\* hence every update collected has version.to different from version.from,
\* version.from being the version parsed from the edge's specifier and
\* version.to the latest version of its name.
C12_OnlyRealUpgrades ==
  \A k \in DOMAIN cpc :
    /\ \A j \in DOMAIN collected[k] :
         LET u == collected[k][j]
             props == PropsOf(u.specifier)
         IN  /\ props.ok
             /\ u.version.from = props.version
             /\ Latest(props.name).ok
             /\ u.version.to = Latest(props.name).version
             /\ u.version.to # u.version.from
    /\ \A e \in DOMAIN edges[k] :
         LET props == PropsOf(edges[k][e].edge.specifier)
             none == \/ ~props.ok
                     \/ ~Latest(props.name).ok
                     \/ Latest(props.name).version = props.version
         IN  none => \A j \in DOMAIN collected[k] : ~FromEdge(k, e, collected[k][j])

\* a call returned an update although the graph also had an edge already at
\* its latest version, an edge without a version token and an edge whose
\* name has no answer
C12_Witness ==
  \E k \in DOMAIN cpc :
    /\ cpc[k] = "returned"
    /\ collected[k] # << >>
    /\ \E e \in DOMAIN edges[k] :
         LET props == PropsOf(edges[k][e].edge.specifier)
         IN  props.ok /\ Latest(props.name).ok /\ Latest(props.name).version = props.version
    /\ \E e \in DOMAIN edges[k] : ~PropsOf(edges[k][e].edge.specifier).ok
    /\ \E e \in DOMAIN edges[k] :
         LET props == PropsOf(edges[k][e].edge.specifier)
         IN  props.ok /\ ~Latest(props.name).ok

\* what stands before the name in a specifier: scheme and, for a remote
\* specifier, the two slashes
NamePrefix(specifier) ==
  LET url == CreateUrl(specifier)
  IN  IF url.protocol \in {ProtoHttp, ProtoHttps} THEN url.protocol \o <<"/", "/">>
      ELSE url.protocol

\* host/std, host/x/<name> or a bare package name
NameForm(specifier, name) ==
  LET url == CreateUrl(specifier)
      host == UpTo(Drop(url.rest, 2), {"/"})
      Bare(n) == n # << >> /\ \A i \in DOMAIN n : n[i] \notin {"/", "@", ":"}
  IN  IF url.protocol \in {ProtoHttp, ProtoHttps}
      THEN \/ name = host \o <<"/", "s", "t", "d">>
           \/ /\ StartsWith(name, host \o <<"/", "x", "/">>)
              /\ Bare(Drop(name, Len(host) + 3))
      ELSE Bare(name)

\* the specifiers the collector has parsed: those of the edges fanned out
Parsed ==
  UNION { { edges[k][e].edge.specifier : e \in DOMAIN edges[k] } : k \in DOMAIN edges }

\* C13: parseProps splits a versioned specifier into name, version and path:
\* the specifier is its prefix, the name, "@", the version and the path put
\* together again, so the version is verbatim (a leading v stays) and the
\* path is all that follows the version, empty when nothing does; the name
\* is host/std, host/x/<name> or the bare package name.  A specifier without
\* "@version" gives undefined and no error.
C13_ParsePropsSplits ==
  /\ \A s \in Parsed :
       LET props == PropsOf(s)
       IN  /\ props.ok =>
                /\ s = NamePrefix(s) \o props.name \o <<"@">> \o props.version \o props.path
                /\ IsVersion(props.version)
                /\ NameForm(s, props.name)
           /\ (\A i \in DOMAIN s : s[i] # "@") => props = NotVersioned
  /\ StdSpecifier \in Parsed =>
       PropsOf(StdSpecifier) =
         [ok |-> TRUE, name |-> StdName, version |-> <<"0", ".", "1", ".", "0">>,
          path |-> <<"/", "v", ".", "t", "s">>]
  /\ HonoSpecifier \in Parsed =>
       PropsOf(HonoSpecifier) =
         [ok |-> TRUE, name |-> HonoName, version |-> <<"v", "0", ".", "1", ".", "0">>,
          path |-> << >>]
  /\ NpmSpecifier \in Parsed =>
       PropsOf(NpmSpecifier) =
         [ok |-> TRUE, name |-> NpmName, version |-> <<"1", ".", "0", ".", "0">>,
          path |-> << >>]

\* a call has parsed a specifier with a path, one with a tagged version and
\* no path, a package specifier and one without a version
C13_Witness ==
  /\ {StdSpecifier, HonoSpecifier, UnpinnedSpecifier} \subseteq Parsed
  /\ \E k \in DOMAIN cpc :
       /\ cpc[k] = "returned"
       /\ \E j \in DOMAIN collected[k] :
            /\ collected[k][j].specifier = HonoSpecifier
            /\ collected[k][j].version.from = <<"v", "0", ".", "1", ".", "0">>
            /\ collected[k][j].path = << >>

(***************************************************************************)
(* Properties of several patches of one referrer.                          *)
(***************************************************************************)
\* the literal an update is to replace, and the literal it is to put there
OldLiteral(u) == <<Quote>> \o u.specifier \o <<Quote>>
UpdatedLiteral(u) ==
  <<Quote>> \o FirstOccurrenceReplaced(u.specifier, u.version.from, u.version.to) \o <<Quote>>

\* text t has the literal of u at u's span: it has not been patched for u
HoldsLiteral(t, u) ==
  LET lines == Split(t)
  IN  /\ SingleLine(u)
      /\ u.code.sl < Len(lines)
      /\ Slice(lines[u.code.sl + 1], u.code.sc, u.code.ec) = OldLiteral(u)

\* t with the literal of u replaced, and with those of u and v replaced
OneReplaced(t, u) == FirstOccurrenceReplaced(t, OldLiteral(u), UpdatedLiteral(u))
BothReplaced(t, u, v) == OneReplaced(OneReplaced(t, u), v)

\* two calls for different literals of one referrer that read the same text,
\* patched for neither
ReadSamePrePatch(c, i, d, j) ==
  /\ i # j
  /\ readText[c][i].kind = "text"
  /\ readText[d][j] = readText[c][i]
  /\ updates[i].referrer = updates[j].referrer
  /\ updates[i].specifier # updates[j].specifier
  /\ HoldsLiteral(readText[c][i].text, updates[i])
  /\ HoldsLiteral(readText[c][i].text, updates[j])

\* C14: when two calls for two different patchable updates of one referrer
\* both read the text as it was before either patch, the content each
\* returns has its own edit and not the other's; and when the caller writes
\* the two contents back, in either order, the file holds the content written
\* last, from which one of the two edits is missing.
C14_LostUpdate ==
  \A i, j \in DOMAIN updates : \A c, d \in Calls :
    ReadSamePrePatch(c, i, d, j) =>
      LET text == readText[c][i].text
          u == updates[i]
          v == updates[j]
          both == BothReplaced(text, u, v)
      IN  \A r \in TaskResults(c, i), q \in TaskResults(d, j) :
            /\ r.content = OneReplaced(text, u)
            /\ q.content = OneReplaced(text, v)
            /\ r.content # both
            /\ q.content # both
            /\ (Len(writes) >= 2 /\ writes[Len(writes) - 1] = r /\ writes[Len(writes)] = q)
                 => /\ files[u.referrer.path] = File(q.content)
                    /\ files[u.referrer.path] # File(both)

\* the two calls of a batch for the two literals of one line read the same
\* text, and the caller wrote the first update's content and then the
\* second's: the file has the second edit without the first
C14_Witness ==
  /\ Len(updates) = 2
  /\ batch = "returned"
  /\ ReadSamePrePatch("all", 1, "all", 2)
  /\ updates[1].code.sl = updates[2].code.sl
  /\ Len(writes) = 2
  /\ writes[1].update = updates[1]
  /\ writes[2].update = updates[2]
  /\ files["a"] = File(OneReplaced(TextPair, updates[2]))

\* a batch patched two lines of one file and the caller wrote the second
\* update's content first: the file has the first edit without the second
C14_WitnessBatch ==
  /\ batch = "returned"
  /\ Len(updates) >= 2
  /\ ReadSamePrePatch("all", 1, "all", 2)
  /\ updates[1].code.sl # updates[2].code.sl
  /\ Len(writes) = 2
  /\ writes[1].update = updates[2]
  /\ writes[2].update = updates[1]
  /\ files["a"] = File(OneReplaced(TextTwo, updates[1]))

\* call t for update j read the text that the result r of a call for update
\* i had given and the caller had written back; the text the first call read
\* had both literals, at two spans of one line that do not overlap
PatchedInTurn(r, i, first, t) ==
  LET j == t[2]
  IN  /\ i # j
      /\ \E k \in DOMAIN writes : writes[k] = r
      /\ readText[t[1]][j] = ReadOf(r.content)
      /\ updates[i].referrer = updates[j].referrer
      /\ updates[i].code.present
      /\ updates[j].code.present
      /\ updates[i].code.sl = updates[j].code.sl
      /\ \/ updates[i].code.ec <= updates[j].code.sc
         \/ updates[j].code.ec <= updates[i].code.sc
      /\ first.kind = "text"
      /\ HoldsLiteral(first.text, updates[i])
      /\ HoldsLiteral(first.text, updates[j])

\* the replacement of u is as long as the literal it replaces
KeepsLength(u) == Len(UpdatedLiteral(u)) = Len(OldLiteral(u))

\* C15: two edits of one line at spans that do not overlap, applied in turn
\* (patch, write back, patch again), give the line with both literals
\* replaced when the edit at the higher character offset is applied first;
\* when the edit at the lower offset is applied first and changes the length
\* of the line, the second edit is made at offsets that are no longer those
\* of its literal and the text with both literals replaced is not what
\* results.
C15_DescendingOrderIsSafe ==
  writes # << >> =>
    \A s, t \in Tasks :
      \A r \in TaskResults(s[1], s[2]) :
        PatchedInTurn(r, s[2], readText[s[1]][s[2]], t) =>
          LET u == updates[s[2]]
              v == updates[t[2]]
              both == BothReplaced(readText[s[1]][s[2]].text, u, v)
          IN  \A q \in TaskResults(t[1], t[2]) :
                /\ u.code.sc > v.code.sc => q.content = both
                /\ (u.code.sc < v.code.sc /\ ~KeepsLength(u)) => q.content # both

\* the edit at the higher offset was applied and written back first and the
\* second call returned the line with both literals replaced, the first of
\* them by a longer one
C15_Witness ==
  /\ Len(updates) = 2
  /\ ret[1].kind = "result"
  /\ \E r \in TaskResults("all", 2) :
       /\ PatchedInTurn(r, 2, readText["all"][2], <<"one", 1>>)
       /\ writes = <<r, ret[1]>>
  /\ ~KeepsLength(updates[1])
  /\ ~KeepsLength(updates[2])
  /\ ret[1].content = BothReplaced(TextPair, updates[1], updates[2])
  /\ files["a"] = File(ret[1].content)

\* the edit at the lower offset was applied and written back first and made
\* the line longer: the second call returned a text other than the one with
\* both literals replaced
C15_WitnessAscending ==
  /\ Len(updates) = 2
  /\ ret[2].kind = "result"
  /\ \E r \in TaskResults("all", 1) :
       PatchedInTurn(r, 1, readText["all"][1], <<"one", 2>>)
  /\ ~KeepsLength(updates[1])
  /\ ret[2].content # BothReplaced(TextPair, updates[1], updates[2])

(***************************************************************************)
(* The order of the collection.                                            *)
(***************************************************************************)
\* the edges of call k whose composition completes in a step
Completing(k) == composed'[k] \ composed[k]

\* C16: the collection is in the order in which the compositions complete:
\* a composition that completes with an update puts it behind all updates
\* of the compositions that completed before it, whose indices stay as they
\* are; so of two upgradeable edges the one that completes first has the
\* smaller index, wherever the two stand in the graph.
C16_CompletionOrder ==
  [][\A k \in DOMAIN cpc :
       LET old == collected[k]
           new == collected'[k]
       IN  /\ Len(new) >= Len(old)
           /\ SubSeq(new, 1, Len(old)) = old
           /\ \A e \in Completing(k) :
                (new # << >> /\ FromEdge(k, e, new[Len(new)])) <=>
                  CreateDependencyUpdate(edges[k][e].edge).kind = "update"
           /\ Len(new) - Len(old) =
                Cardinality({ e \in Completing(k) :
                                CreateDependencyUpdate(edges[k][e].edge).kind = "update" })]_vars

\* call k returned the updates of three upgradeable edges in the order p of
\* the edges
CollectedAs(p) ==
  \E k \in DOMAIN cpc :
    /\ cpc[k] = "returned"
    /\ DOMAIN Expected(k) = {1, 2, 3}
    /\ Expected(k)[1] # Expected(k)[2]
    /\ Expected(k)[1] # Expected(k)[3]
    /\ Expected(k)[2] # Expected(k)[3]
    /\ collected[k] = [i \in 1..3 |-> Expected(k)[p[i]]]

\* every order of three updates is the outcome of some run
C16_Witness == CollectedAs(<<2, 3, 1>>)
C16_Witness123 == CollectedAs(<<1, 2, 3>>)
C16_Witness132 == CollectedAs(<<1, 3, 2>>)
C16_Witness213 == CollectedAs(<<2, 1, 3>>)
C16_Witness312 == CollectedAs(<<3, 1, 2>>)
C16_Witness321 == CollectedAs(<<3, 2, 1>>)

(***************************************************************************)
(* The one-time initialization.                                            *)
(***************************************************************************)
\* no call is past ensureInit, building its graph or further, before an
\* initDenoGraph has completed and set the flag
NoGraphBeforeInit ==
  \A k \in DOMAIN cpc :
    (cpc[k] \notin {"idle", "init"} \/ graph[k] # NoGraph) => initialized

\* C17: over any number of calls of collectDependencyUpdateAll, one after
\* the other or in flight together, initDenoGraph is invoked at most once,
\* and no graph is built before an initDenoGraph has completed.
C17_InitOnce ==
  /\ initCalls <= 1
  /\ NoGraphBeforeInit

\* a call that starts after an initDenoGraph has completed does not invoke
\* it again
C17_InitOnceSequential ==
  [][initialized => initCalls' = initCalls]_vars

\* the second call started after the first had set the flag, and both built
\* their graphs after one initialization
C17_WitnessSequential ==
  /\ initCalls = 1
  /\ \A k \in DOMAIN cpc : cpc[k] = "returned"
  /\ Cardinality(DOMAIN cpc) = 2

(***************************************************************************)
(* Where an update comes from.                                             *)
(***************************************************************************)
\* the places of call k's graph an update may come from: a module and the
\* index of an edge in its dependency list
Places(k) ==
  UNION { { <<m, d>> : d \in DOMAIN graph[k].modules[m].dependencies } :
            m \in DOMAIN graph[k].modules }

\* update u is of the edge at place p: its referrer is the module's specifier
\* and it has the edge's specifier and code span
OfPlace(k, p, u) ==
  LET module == graph[k].modules[p[1]]
      dependency == module.dependencies[p[2]]
  IN  /\ u.referrer = module.specifier
      /\ u.specifier = dependency.specifier
      /\ u.code = dependency.code

\* C18: every update collected has as referrer the specifier of the module
\* whose dependency list holds the edge it was made from, and that edge's
\* specifier and code span as they are; and when the call returns, every
\* upgradeable edge has its own update, so a specifier that several modules
\* import has one with the referrer and span of each of them.
C18_ReferrerIsImporter ==
  \A k \in DOMAIN cpc :
    /\ \A j \in DOMAIN collected[k] : \E p \in Places(k) : OfPlace(k, p, collected[k][j])
    /\ cpc[k] = "returned" =>
         \A p \in Places(k) :
           LET dependency == graph[k].modules[p[1]].dependencies[p[2]]
               here == { j \in DOMAIN collected[k] : OfPlace(k, p, collected[k][j]) }
           IN  Cardinality(here) =
                 IF CreateDependencyUpdate(dependency).kind = "update" THEN 1 ELSE 0

\* the root module and lib.ts both import the standard library: the call
\* returned one update for each, with the two referrers and the two spans
C18_Witness ==
  \E k \in DOMAIN cpc :
    /\ cpc[k] = "returned"
    /\ \E i, j \in DOMAIN collected[k] :
         /\ collected[k][i].specifier = StdSpecifier
         /\ collected[k][j].specifier = StdSpecifier
         /\ collected[k][i].referrer = RootSpecifier
         /\ collected[k][j].referrer = LibSpecifier
         /\ collected[k][i].code = Span(0, 7, 0, 35)
         /\ collected[k][j].code = Span(1, 7, 1, 35)

(***************************************************************************)
(* What is settled when a call returns, and what is not when it fails.     *)
(***************************************************************************)
\* a task of a batch that has failed completes its read and patch
SettlesLate(i) ==
  /\ batch = "rejected"
  /\ pc["all"][i] = "reading"
  /\ pc'["all"][i] = "settled"

\* C19: when execDependencyUpdateAll or collectDependencyUpdateAll returns,
\* every patch or composition it started has settled, and the array it
\* returned is not appended to afterwards.  When a patch fails, the batch
\* fails at once, whatever its siblings are doing, and a sibling that
\* completes later still pushes its result into the array nobody gets.
C19_SettledOnReturnOnly ==
  /\ [](batch = "returned" => \A i \in DOMAIN updates : pc["all"][i] = "settled")
  /\ [](\A k \in DOMAIN cpc : cpc[k] = "returned" => composed[k] = DOMAIN edges[k])
  /\ [][batch = "returned" => results' = results]_vars
  /\ [][\A k \in DOMAIN cpc : cpc[k] = "returned" => collected'[k] = collected[k]]_vars
  /\ [][\A i \in DOMAIN updates :
          (batch = "pending" /\ pc'["all"][i] = "failed") => batch' = "rejected"]_vars
  /\ [][\A i \in DOMAIN updates :
          SettlesLate(i) =>
            /\ Len(results') = Len(results) + 1
            /\ SubSeq(results', 1, Len(results)) = results
            /\ results'[Len(results')].update = updates[i]
            /\ batch' = "rejected"]_vars

\* the batch has failed on the file that cannot be read while the read of a
\* sibling is still in flight, and the collection has returned its updates
C19_Witness ==
  /\ batch = "rejected"
  /\ \E i \in DOMAIN updates : readText["all"][i] = ReadFailed
  /\ \E i \in DOMAIN updates :
       /\ pc["all"][i] = "reading"
       /\ files[updates[i].referrer.path].exists
  /\ results = << >>
  /\ \E k \in DOMAIN cpc : cpc[k] = "returned" /\ collected[k] # << >>

\* the array of a failed batch stays as it was when the batch failed (it
\* does not: a sibling's result is pushed later)
AbandonedArrayIsFrozen == [][batch = "rejected" => results' = results]_vars

(***************************************************************************)
(* A span whose line the text no longer has.                               *)
(***************************************************************************)
\* the task read a text that has no line of the number the span starts at
ReadNoTargetLine(c, i) ==
  /\ SingleLine(updates[i])
  /\ readText[c][i].kind = "text"
  /\ updates[i].code.sl >= Len(Split(readText[c][i].text))

\* the number of lines of a text: one more than it has line breaks
LineCount(t) == Cardinality({ k \in DOMAIN t : t[k] = NL }) + 1

\* C20: when the line a single-line span starts at is no line of the text
\* execDependencyUpdate has read, the call fails and hands over no result;
\* and no result ever has more lines than the text its call read.
C20_MissingLineFails ==
  \A t \in Tasks :
    LET c == t[1]
        i == t[2]
    IN  /\ ReadNoTargetLine(c, i) =>
             /\ pc[c][i] = "failed"
             /\ TaskResults(c, i) = {}
             /\ c = "one" => ret[i] = NoValue
        /\ readText[c][i].kind = "text" =>
             \A r \in TaskResults(c, i) :
               LineCount(r.content) = LineCount(readText[c][i].text)

\* a direct call for a span on the second line of a text of one line has
\* failed, the file being there and read
C20_Witness ==
  \E i \in DOMAIN updates :
    /\ ReadNoTargetLine("one", i)
    /\ updates[i].code.sl = 1
    /\ readText["one"][i] = ReadOf(TextOne)
    /\ pc["one"][i] = "failed"
    /\ ret[i] = NoValue

====
